---- MODULE Spec2Model ----
(***************************************************************************)
(* image2svg.py: conversion of a 6-shade grey-level pixel array into SVG   *)
(* line strokes and laser G-code (horizontal pass, then vertical pass).    *)
(*                                                                         *)
(* Lengths are kept in integers: a physical coordinate is the pixel        *)
(* coordinate times PIXEL_SIZE = 0.127 mm, held in thousandths of a mm     *)
(* (the three decimals the G-code prints); a laser power is held in        *)
(* thousandths as well; a feed speed is the integer that %d prints.        *)
(***************************************************************************)
EXTENDS Integers, Sequences, FiniteSets, TLC

VARIABLES
    S_OR_F,         \* global mode flag: 0 = power modulation, 1 = speed
    image,          \* main's array: a sequence of scanlines
    shape,          \* <<number of scanlines, samples per scanline>> of image
    width, height,  \* main's width and height
    pc,             \* position in main / generateVectors
    axes,           \* "x" (horizontal pass) or "y" (vertical pass)
    axisDimension,  \* generateVectors' axisDimension argument
    invert,         \* generateVectors' inversion flag
    rowIndex,       \* index of the scanline being processed
    row,            \* the scanline being processed (flipped when inverted)
    it,             \* position of the inner enumerate()
    index,          \* Python's variable index (Unbound before the first pixel)
    rowDrawn, firstEndpoint,
    last_a, last_b, last_c, last_d,
    svgFile,        \* the elements written to the SVG file, in order
    gcodeFile,      \* the G-code blocks written, in order
    evals,          \* history: the runs of the current scanline tested by needLine
    calls,          \* history: the arguments of every svgPrint call
    saved,          \* the two files of an earlier run of the program, if any
    fval, fidx, fres \* inputs and results of the function-level specification

vars == <<S_OR_F, image, shape, width, height, pc, axes, axisDimension, invert,
          rowIndex, row, it, index, rowDrawn, firstEndpoint,
          last_a, last_b, last_c, last_d, svgFile, gcodeFile, evals, calls,
          saved, fval, fidx, fres>>

-----------------------------------------------------------------------------
(* Bounds of the model *)

\* largest number of pixels of a generated grid
MaxCells == 6
\* largest scanline index tried on the draw predicates
MaxLine == 16

-----------------------------------------------------------------------------
(* Program constants *)

shade1 == 0
shade2 == 50
shade3 == 100
shade4 == 158
shade5 == 212
shade6 == 240
White == 255

\* PIXEL_SIZE = 1 / (200.0 / 25.4) = 0.127 mm, in thousandths of a mm
PIXEL_SIZE == 127
\* x < 0.001 in MOVE_TO / BURN_TO, in thousandths of a mm
Epsilon == 1

POWER_MIN == 0
POWER_MAX == 15
FEED_SPEED == 300
FEED_SPEED_MAX == 800

\* 256 // 6
BucketWidth == 256 \div 6

\* the six levels Image.eval reduces every pixel to
Levels == {shade1, shade2, shade3, shade4, shade5, White}

Unbound == -1

-----------------------------------------------------------------------------
(* Pure functions *)

\* the darkest band drawn on every line, odd ones included
needLineXAnyLine(val, i) ==
    IF val <= shade1 THEN TRUE
    ELSE IF i % 4 = 0 /\ val <= shade3 THEN TRUE
    ELSE IF i % 8 = 0 /\ val <= shade5 THEN TRUE
    ELSE FALSE

\* the last band closed at the lightest level instead of shade5
needLineXLightest(val, i) ==
    IF i % 2 = 0 /\ val <= shade1 THEN TRUE
    ELSE IF i % 4 = 0 /\ val <= shade3 THEN TRUE
    ELSE IF i % 8 = 0 /\ val <= White THEN TRUE
    ELSE FALSE

\* the parity of the first band taken on the wrong side
needLineXOddLines(val, i) ==
    IF i % 2 = 1 /\ val <= shade1 THEN TRUE
    ELSE IF i % 4 = 0 /\ val <= shade3 THEN TRUE
    ELSE IF i % 8 = 0 /\ val <= shade5 THEN TRUE
    ELSE FALSE

needLineX(val, i) ==
    IF i % 2 = 0 /\ val <= shade1 THEN TRUE
    ELSE IF i % 4 = 0 /\ val <= shade3 THEN TRUE
    ELSE IF i % 8 = 0 /\ val <= shade5 THEN TRUE
    ELSE FALSE

\* the band up to shade3 not suppressed on the lines of period 4
needLineYNoSuppress(val, i) ==
    IF i % 2 = 0 /\ val <= shade1 THEN FALSE
    ELSE IF i % 4 = 0 /\ val <= shade2 THEN TRUE
    ELSE IF i % 8 = 0 /\ val <= shade4 THEN TRUE
    ELSE FALSE

needLineY(val, i) ==
    IF i % 2 = 0 /\ val <= shade1 THEN FALSE
    ELSE IF i % 4 = 0 /\ val <= shade2 THEN TRUE
    ELSE IF i % 4 = 0 /\ val <= shade3 THEN FALSE
    ELSE IF i % 8 = 0 /\ val <= shade4 THEN TRUE
    ELSE FALSE

\* the horizontal predicate handed to both passes
needLineAlwaysX(ax, val, i) == needLineX(val, i)

needLine(ax, val, i) == IF ax = "x" THEN needLineX(val, i) ELSE needLineY(val, i)

\* the division by 256 / 6 rounded up, the product by 256 // 6
QuantizeMixedWidth(val) ==
    IF val # 0 THEN (val \div (BucketWidth + 1)) * BucketWidth ELSE val

\* six buckets of width 256 / 6, without the rounding of 256 // 6
QuantizeSixths(val) == IF val # 0 THEN ((6 * val) \div 256) * BucketWidth ELSE val

\* svgPrint line 126-127: the stroke darkness
Quantize(val) == IF val # 0 THEN (val \div BucketWidth) * BucketWidth ELSE val

\* the bucket index: the quantized value over the bucket width (line 138)
Bucket(val) == Quantize(val) \div BucketWidth

\* POWER_STEP = float(POWER_MAX - POWER_MIN) / 6.0 times k, in thousandths
PowerOf(k) == (k * (POWER_MAX - POWER_MIN) * 1000) \div 6

\* int(k * SPEED_STEP + FEED_SPEED), as BURN_GCODE_F prints it with %d
SpeedOf(k) == (k * (FEED_SPEED_MAX - FEED_SPEED)) \div 6 + FEED_SPEED

\* the power taken from the shade itself, not from 255 - shade
SvalPowerFromShade(mode, q) ==
    IF mode = 1 THEN SpeedOf(q \div BucketWidth)
    ELSE PowerOf(q \div BucketWidth)

\* svgPrint line 137-140 on the quantized value q
Sval(mode, q) ==
    IF mode = 1 THEN SpeedOf(q \div BucketWidth)
    ELSE PowerOf((255 - q) \div BucketWidth)

\* MOVE_TO / BURN_TO: values below 0.001 are written as 0
Snap(x) == IF x < Epsilon THEN 0 ELSE x

MOVE_TO(x, y) == [op |-> "G0", x |-> Snap(x), y |-> Snap(y)]

\* the arguments of BURN_GCODE_F given in the order of BURN_GCODE
BURN_TOShifted(x, y, val) ==
    IF S_OR_F = 1 THEN [op |-> "G1", x |-> Snap(val), y |-> Snap(x), s |-> Snap(y)]
    ELSE [op |-> "G1", x |-> Snap(x), y |-> Snap(y), s |-> val]

BURN_TO(x, y, val) == [op |-> "G1", x |-> Snap(x), y |-> Snap(y), s |-> val]

Reverse(s) == [k \in 1..Len(s) |-> s[Len(s) + 1 - k]]

\* np.swapaxes(image, 0, 1) of an array of shape sh
SwapAxes(img, sh) == [j \in 1..sh[2] |-> [r \in 1..sh[1] |-> img[r][j]]]

-----------------------------------------------------------------------------
(* Grids handed to the core by the pre-processing stage *)

\* the levels the generated grids are painted with
GridShades == {shade1, shade2, White}

\* width and height of the generated grids
Dims == {d \in (1..MaxCells) \X (1..MaxCells) : d[1] * d[2] <= MaxCells}

GridsOf(w, h, shades) == [1..h -> [1..w -> shades]]

\* the two-tone grids of the 4x2 end-to-end scenario
ScenarioGrids == GridsOf(4, 2, {shade1, White})

\* the scenario grid itself: rows [0,0,255,255] and [255,255,0,0]
ScenarioGrid == << <<0, 0, 255, 255>>, <<255, 255, 0, 0>> >>

-----------------------------------------------------------------------------
(* svgPrint *)

\* a write that starts again at the beginning of the file
WriteTruncating(file, recs) == recs

\* file.write: the text is added at the end of the file
Write(file, recs) == file \o recs

\* the mirrored coordinate taken with the wrong sign
AlongNegated(p, inv, dim) == IF inv THEN p - dim ELSE p

\* the sample index mirrored instead of the run bound
AlongMirrorIndex(p, inv, dim) == IF inv THEN dim - 1 - p ELSE p

\* the along-line pixel coordinate written for a run bound (lines 130, 133)
Along(p, inv, dim) == IF inv THEN dim - p ELSE p

\* the <line> element of lines 128-134
SvgLine(start, stop, rowNum, inv, ax, dim, val) ==
    [op |-> "line", axis |-> ax,
     p1 |-> Along(start, inv, dim), p2 |-> Along(stop, inv, dim),
     row |-> rowNum, val |-> Quantize(val)]

\* the test that guards MOVE_TO (lines 145 and 150)
NeedMove(a, b) == a # last_c \/ b # last_d

\* a stroke of no length written as a Travel only
GcodeOfSkipEmptyMark(a, b, c, d, ax, sval) ==
    IF ax = "x"
    THEN (IF NeedMove(a, b) THEN <<MOVE_TO(a, b)>> ELSE <<>>)
         \o (IF a = c THEN <<>> ELSE <<BURN_TO(c, d, sval)>>)
    ELSE (IF NeedMove(a, b) THEN <<MOVE_TO(b, a)>> ELSE <<>>)
         \o (IF a = c THEN <<>> ELSE <<BURN_TO(d, c, sval)>>)

\* the G-code of lines 144-152
GcodeOf(a, b, c, d, ax, sval) ==
    IF ax = "x"
    THEN (IF NeedMove(a, b) THEN <<MOVE_TO(a, b)>> ELSE <<>>) \o <<BURN_TO(c, d, sval)>>
    ELSE (IF NeedMove(a, b) THEN <<MOVE_TO(b, a)>> ELSE <<>>) \o <<BURN_TO(d, c, sval)>>

svgPrint(start, stop, rowNum, inv, ax, dim, val) ==
    LET q == Quantize(val)
        sval == Sval(S_OR_F, q)
        a == Along(start, inv, dim) * PIXEL_SIZE
        c == Along(stop, inv, dim) * PIXEL_SIZE
        b == rowNum * PIXEL_SIZE
        d == rowNum * PIXEL_SIZE
    IN  /\ svgFile' = Write(svgFile, <<SvgLine(start, stop, rowNum, inv, ax, dim, val)>>)
        /\ gcodeFile' = Write(gcodeFile, GcodeOf(a, b, c, d, ax, sval))
        /\ last_a' = a
        /\ last_b' = b
        /\ last_c' = c
        /\ last_d' = d
        /\ calls' = Append(calls, [start |-> start, stop |-> stop, rowNum |-> rowNum,
                                   invert |-> inv, axis |-> ax,
                                   axisDimension |-> dim, val |-> val])

\* a run that needLine rejects writes nothing
NoPrint == UNCHANGED <<svgFile, gcodeFile, last_a, last_b, last_c, last_d, calls>>

-----------------------------------------------------------------------------
(* main and generateVectors *)

\* the direction switched after every scanline, drawn or not
ToggleAlways(inv, drawn) == ~inv

\* generateVectors, lines 180-181: the direction after a scanline
Toggle(inv, drawn) == IF drawn THEN ~inv ELSE inv

\* the flag of the previous pass carried into the next one
EnterInvertKept(prev) == prev

\* generateVectors, line 160: the direction a pass starts with
EnterInvert(prev) == FALSE

fnVars == <<fval, fidx, fres>>
gridVars == <<S_OR_F, width, height, saved>>

\* main, lines 213-233: the file headers, then the call of the horizontal pass
MainOpen ==
    /\ pc = "main"
    /\ svgFile' = Write(<<>>, <<[op |-> "svg", width |-> width, height |-> height]>>)
    /\ gcodeFile' = Write(Write(<<>>, <<[op |-> "HEADER", f |-> FEED_SPEED]>>),
                          IF S_OR_F = 1 THEN <<[op |-> "S", s |-> POWER_MAX]>> ELSE <<>>)
    /\ axes' = "x"
    /\ axisDimension' = width
    /\ invert' = EnterInvert(invert)
    /\ rowIndex' = 0
    /\ index' = Unbound
    /\ pc' = "row"
    /\ UNCHANGED <<image, shape, row, it, rowDrawn, firstEndpoint,
                   last_a, last_b, last_c, last_d, evals, calls>>
    /\ UNCHANGED gridVars /\ UNCHANGED fnVars

\* generateVectors, lines 162-167: the next scanline is taken
BeginRow ==
    /\ pc = "row"
    /\ rowIndex < shape[1]
    /\ rowDrawn' = FALSE
    /\ firstEndpoint' = 0
    /\ row' = IF invert THEN Reverse(image[rowIndex + 1]) ELSE image[rowIndex + 1]
    /\ it' = 0
    /\ evals' = <<>>
    /\ pc' = "pixel"
    /\ UNCHANGED <<image, shape, axes, axisDimension, invert, rowIndex, index,
                   last_a, last_b, last_c, last_d, svgFile, gcodeFile, calls>>
    /\ UNCHANGED gridVars /\ UNCHANGED fnVars

\* generateVectors, lines 169-174: one iteration of the inner loop
ScanPixel ==
    /\ pc = "pixel"
    /\ it < Len(row)
    /\ index' = it
    /\ it' = it + 1
    /\ IF it > 0 /\ row[it + 1] # row[it]
       THEN /\ evals' = Append(evals, [start |-> firstEndpoint, stop |-> it,
                                       val |-> row[it],
                                       drawn |-> needLine(axes, row[it], rowIndex)])
            /\ IF needLine(axes, row[it], rowIndex)
               THEN /\ svgPrint(firstEndpoint, it, rowIndex, invert, axes,
                                axisDimension, row[it])
                    /\ rowDrawn' = TRUE
               ELSE /\ NoPrint
                    /\ UNCHANGED rowDrawn
            /\ firstEndpoint' = it
       ELSE /\ NoPrint
            /\ UNCHANGED <<evals, rowDrawn, firstEndpoint>>
    /\ UNCHANGED <<image, shape, pc, axes, axisDimension, invert, rowIndex, row>>
    /\ UNCHANGED gridVars /\ UNCHANGED fnVars

\* generateVectors, lines 176-181: the last segment of the scanline is tested
\* and the direction is switched.  row[index] with index never assigned
\* raises UnboundLocalError.
EndRow ==
    /\ pc = "pixel"
    /\ it = Len(row)
    /\ IF index = Unbound
       THEN /\ pc' = "error"
            /\ NoPrint
            /\ UNCHANGED <<evals, rowDrawn, invert, rowIndex>>
       ELSE /\ evals' = Append(evals, [start |-> firstEndpoint, stop |-> index,
                                       val |-> row[index + 1],
                                       drawn |-> needLine(axes, row[index + 1], rowIndex)])
            /\ IF needLine(axes, row[index + 1], rowIndex)
               THEN /\ svgPrint(firstEndpoint, index, rowIndex, invert, axes,
                                axisDimension, row[index + 1])
                    /\ rowDrawn' = TRUE
               ELSE /\ NoPrint
                    /\ UNCHANGED rowDrawn
            /\ invert' = Toggle(invert, rowDrawn')
            /\ rowIndex' = rowIndex + 1
            /\ pc' = "row"
    /\ UNCHANGED <<image, shape, axes, axisDimension, row, it, index, firstEndpoint>>
    /\ UNCHANGED gridVars /\ UNCHANGED fnVars

\* main, lines 235-237: the array is transposed and the vertical pass called
SwapAndCallY ==
    /\ pc = "row"
    /\ rowIndex = shape[1]
    /\ axes = "x"
    /\ image' = SwapAxes(image, shape)
    /\ shape' = <<shape[2], shape[1]>>
    /\ axes' = "y"
    /\ axisDimension' = height
    /\ invert' = EnterInvert(invert)
    /\ rowIndex' = 0
    /\ index' = Unbound
    /\ UNCHANGED <<pc, row, it, rowDrawn, firstEndpoint,
                   last_a, last_b, last_c, last_d, svgFile, gcodeFile, evals, calls>>
    /\ UNCHANGED gridVars /\ UNCHANGED fnVars

\* main, lines 239-246: the files are closed
MainClose ==
    /\ pc = "row"
    /\ rowIndex = shape[1]
    /\ axes = "y"
    /\ svgFile' = Write(svgFile, <<[op |-> "/svg"]>>)
    /\ gcodeFile' = Write(gcodeFile, <<[op |-> "FOOTER"]>>)
    /\ pc' = "done"
    /\ UNCHANGED <<image, shape, axes, axisDimension, invert, rowIndex, row, it, index,
                   rowDrawn, firstEndpoint, last_a, last_b, last_c, last_d, evals, calls>>
    /\ UNCHANGED gridVars /\ UNCHANGED fnVars

\* the state in which main is entered with the array img of w x h pixels
Start(img, w, h, mode) ==
    /\ S_OR_F = mode
    /\ image = img
    /\ shape = <<h, w>>
    /\ width = w
    /\ height = h
    /\ pc = "main"
    /\ axes = "x"
    /\ axisDimension = w
    /\ invert = FALSE
    /\ rowIndex = 0
    /\ row = <<>>
    /\ it = 0
    /\ index = Unbound
    /\ rowDrawn = FALSE
    /\ firstEndpoint = 0
    /\ last_a = 0
    /\ last_b = 0
    /\ last_c = 0
    /\ last_d = 0
    /\ svgFile = <<>>
    /\ gcodeFile = <<>>
    /\ evals = <<>>
    /\ calls = <<>>
    /\ saved = <<>>

Init ==
    /\ \E mode \in {0, 1} :
          \/ \E d \in Dims : \E img \in GridsOf(d[1], d[2], GridShades) :
                Start(img, d[1], d[2], mode)
          \/ \E img \in ScenarioGrids : Start(img, 4, 2, mode)
    /\ fval = 0
    /\ fidx = 0
    /\ fres = <<>>

Next ==
    \/ MainOpen
    \/ BeginRow
    \/ ScanPixel
    \/ EndRow
    \/ SwapAndCallY
    \/ MainClose

Spec == Init /\ [][Next]_vars

\* the program is run a second time on the same image file with the other
\* value of its mode argument (lines 249-258): a new process, whose globals
\* are those of lines 73-81 again; the files of the first run are kept
RunAgain ==
    /\ pc = "done"
    /\ saved = <<>>
    /\ saved' = [mode |-> S_OR_F, svg |-> svgFile, gcode |-> gcodeFile]
    /\ S_OR_F' = 1 - S_OR_F
    /\ image' = SwapAxes(image, shape)
    /\ shape' = <<height, width>>
    /\ pc' = "main"
    /\ axes' = "x"
    /\ axisDimension' = width
    /\ invert' = FALSE
    /\ rowIndex' = 0
    /\ row' = <<>>
    /\ it' = 0
    /\ index' = Unbound
    /\ rowDrawn' = FALSE
    /\ firstEndpoint' = 0
    /\ last_a' = 0
    /\ last_b' = 0
    /\ last_c' = 0
    /\ last_d' = 0
    /\ svgFile' = <<>>
    /\ gcodeFile' = <<>>
    /\ evals' = <<>>
    /\ calls' = <<>>
    /\ UNCHANGED <<width, height>> /\ UNCHANGED fnVars

TwoRunNext ==
    \/ MainOpen
    \/ BeginRow
    \/ ScanPixel
    \/ EndRow
    \/ SwapAndCallY
    \/ MainClose
    \/ RunAgain

\* two runs of the program on the same image, one in each mode
TwoRunSpec == Init /\ [][TwoRunNext]_vars

\* shapes of arrays without a pixel: no scanline, or scanlines of no sample
EmptyDims == {d \in (0..MaxCells) \X (0..MaxCells) : d[1] = 0 \/ d[2] = 0}

\* main entered with any array of Init or with an array without a pixel
InitWithEmpty ==
    \/ Init
    \/ /\ \E mode \in {0, 1} : \E d \in EmptyDims :
              \E img \in GridsOf(d[1], d[2], GridShades) : Start(img, d[1], d[2], mode)
       /\ fval = 0
       /\ fidx = 0
       /\ fres = <<>>

SpecWithEmpty == InitWithEmpty /\ [][Next]_vars

\* the 4x3 grids of the two darkest levels: rows 0 and 2 are both drawn
\* horizontally, row 2 reversed, with runs of up to four pixels
WideGrids == GridsOf(4, 3, {shade1, shade2})

\* main entered with any array of Init or with one of the 4x3 grids
InitWide ==
    \/ Init
    \/ /\ \E mode \in {0, 1} : \E img \in WideGrids : Start(img, 4, 3, mode)
       /\ fval = 0
       /\ fidx = 0
       /\ fres = <<>>

WideSpec == InitWide /\ [][Next]_vars

-----------------------------------------------------------------------------
(* The draw predicates and the quantization on their own: every shade value *)
(* of a byte and every scanline index up to MaxLine.                        *)

Idle == Start(<< <<White>> >>, 1, 1, 0)

FnInit ==
    /\ Idle
    /\ fval \in 0..255
    /\ fidx \in 0..MaxLine
    /\ fres = <<>>

\* the two predicates are called on (fval, fidx)
CallNeedLine ==
    /\ fres = <<>>
    /\ fres' = [fn |-> "needLine", x |-> needLineX(fval, fidx), y |-> needLineY(fval, fidx)]
    /\ UNCHANGED <<fval, fidx>>
    /\ UNCHANGED <<S_OR_F, image, shape, width, height, pc, axes, axisDimension, invert,
                   rowIndex, row, it, index, rowDrawn, firstEndpoint,
                   last_a, last_b, last_c, last_d, svgFile, gcodeFile, evals, calls,
                   saved>>

\* svgPrint's arithmetic on fval: darkness, bucket index, power and speed
CallQuantize ==
    /\ fres = <<>>
    /\ fres' = [fn |-> "quantize", q |-> Quantize(fval), bucket |-> Bucket(fval),
                power |-> Sval(0, Quantize(fval)), speed |-> Sval(1, Quantize(fval)),
                qq |-> Quantize(Quantize(fval))]
    /\ UNCHANGED <<fval, fidx>>
    /\ UNCHANGED <<S_OR_F, image, shape, width, height, pc, axes, axisDimension, invert,
                   rowIndex, row, it, index, rowDrawn, firstEndpoint,
                   last_a, last_b, last_c, last_d, svgFile, gcodeFile, evals, calls,
                   saved>>

FnNext ==
    \/ CallNeedLine
    \/ CallQuantize

FnSpec == FnInit /\ [][FnNext]_vars

-----------------------------------------------------------------------------
(* Views of the two output streams *)

\* the geometry records of the SVG file
Strokes == SelectSeq(svgFile, LAMBDA r : r.op = "line")

\* the Travel (G0) and Mark (G1) instructions of the G-code file
Motion == SelectSeq(gcodeFile, LAMBDA r : r.op \in {"G0", "G1"})

Travels == SelectSeq(gcodeFile, LAMBDA r : r.op = "G0")

Marks == SelectSeq(gcodeFile, LAMBDA r : r.op = "G1")

IsPrefix(s, t) == Len(s) <= Len(t) /\ \A k \in 1..Len(s) : s[k] = t[k]

TypeOK ==
    /\ pc \in {"main", "row", "pixel", "error", "done"}
    /\ axes \in {"x", "y"}
    /\ invert \in BOOLEAN
    /\ index \in Unbound..MaxCells

-----------------------------------------------------------------------------
(* Claims *)

RECURSIVE SumLen(_)
\* the sum of the lengths stop - start of a sequence of runs
SumLen(rs) == IF rs = <<>> THEN 0
              ELSE (rs[1].stop - rs[1].start) + SumLen(Tail(rs))

\* a scanline has been processed to its end
LineDone == pc = "row" /\ rowIndex > 0

\* C1: when a scanline of length n >= 1 has been processed, the runs
\* [start, stop) tested by the draw predicate, the final one included, start
\* at 0, follow one another without gap or overlap, and their lengths sum to n.
C1_FullCoverage ==
    LineDone =>
        /\ Len(evals) >= 1
        /\ evals[1].start = 0
        /\ \A k \in 1..Len(evals) - 1 : evals[k].stop = evals[k + 1].start
        /\ \A k \in 1..Len(evals) : evals[k].start <= evals[k].stop
        /\ SumLen(evals) = shape[2]

\* the device position before the i-th motion instruction
PosBefore(i) == IF i = 1 THEN <<0, 0>> ELSE <<Motion[i - 1].x, Motion[i - 1].y>>

\* C2: no Travel of the motion stream goes to the position the device is
\* already at (the end point of the previous Mark, the origin before the
\* first), in the horizontal pass, in the vertical pass and between them.
C2_NoRedundantTravel ==
    \A i \in 1..Len(Motion) :
        Motion[i].op = "G0" => <<Motion[i].x, Motion[i].y>> # PosBefore(i)

\* some <line> element of file f belongs to scanline i of pass ax
DrawnOnLine(f, ax, i) ==
    \E k \in 1..Len(f) : f[k].op = "line" /\ f[k].axis = ax /\ f[k].row = i

\* the step that ends a scanline
EndsLine == pc = "pixel" /\ pc' = "row"

\* C3: the inversion flag after a scanline differs from the flag before it
\* exactly when a run of that scanline was drawn; so two strokes that follow
\* one another in a pass on different scanlines have opposite directions,
\* whatever number of undrawn scanlines lies between them.
C3_ToggleIffDrawn ==
    /\ [][EndsLine => ((invert' # invert) <=> DrawnOnLine(svgFile', axes, rowIndex))]_vars
    /\ [](\A k \in 1..Len(calls) - 1 :
            (calls[k].axis = calls[k + 1].axis /\ calls[k].rowNum # calls[k + 1].rowNum)
                => calls[k].invert # calls[k + 1].invert)

\* two drawn scanlines of the horizontal pass with an undrawn one between
\* them: the first drawn forward, the second reversed, the flag back to false
C3_Witness ==
    /\ LineDone
    /\ \E k \in 1..Len(calls) - 1 :
          /\ calls[k].axis = "x" /\ calls[k + 1].axis = "x"
          /\ calls[k].rowNum + 2 <= calls[k + 1].rowNum
          /\ calls[k + 1].rowNum = rowIndex - 1
          /\ ~calls[k].invert /\ calls[k + 1].invert /\ ~invert

\* the step tests a run against the draw predicate
TestsRun == Len(evals') = Len(evals) + 1

\* the motion instructions a step adds
NewMotion == SubSeq(Motion', Len(Motion) + 1, Len(Motion'))

\* C4: a run the draw predicate accepts adds one geometry record and one
\* Mark, with at most one Travel right before the Mark; a rejected run and a
\* step that tests no run add nothing.  So there are as many Marks as geometry
\* records, at most as many Travels as Marks, and a Mark after every Travel.
C4_OneStrokeOneMark ==
    /\ [][/\ IsPrefix(Strokes, Strokes') /\ IsPrefix(Motion, Motion')
          /\ IF TestsRun /\ evals'[Len(evals')].drawn
             THEN /\ Len(Strokes') = Len(Strokes) + 1
                  /\ Len(NewMotion) \in {1, 2}
                  /\ NewMotion[Len(NewMotion)].op = "G1"
                  /\ Len(NewMotion) = 2 => NewMotion[1].op = "G0"
             ELSE Strokes' = Strokes /\ Motion' = Motion]_vars
    /\ [](/\ Len(Marks) = Len(Strokes)
          /\ Len(Travels) <= Len(Marks)
          /\ \A i \in 1..Len(Motion) :
                Motion[i].op = "G0" => (i < Len(Motion) /\ Motion[i + 1].op = "G1"))

\* a scanline on which one run was rejected, one accepted after a Travel and
\* one accepted without a Travel
C4_Witness ==
    /\ LineDone
    /\ \E k \in 1..Len(evals) : ~evals[k].drawn
    /\ \E i \in 1..Len(Motion) - 2 :
          Motion[i].op = "G0" /\ Motion[i + 1].op = "G1" /\ Motion[i + 2].op = "G1"
    /\ Cardinality({k \in 1..Len(evals) : evals[k].drawn}) >= 2

\* the pass of a geometry record as a number: horizontal before vertical
PassNo(r) == IF r.axis = "x" THEN 0 ELSE 1

\* the physical end point of a geometry record, as BURN_TO receives it
EndPoint(r) == IF r.axis = "x" THEN <<r.p2 * PIXEL_SIZE, r.row * PIXEL_SIZE>>
               ELSE <<r.row * PIXEL_SIZE, r.p2 * PIXEL_SIZE>>

\* C5: in the geometry stream every record of the horizontal pass precedes
\* every record of the vertical pass and the scanline index never decreases
\* within a pass; the Marks of the motion stream are the strokes of the
\* geometry stream in the same order; both files only grow at their end.
C5_PassOrderAppendOnly ==
    /\ [][IsPrefix(svgFile, svgFile') /\ IsPrefix(gcodeFile, gcodeFile')]_vars
    /\ [](/\ \A j \in 1..Len(Strokes) - 1 :
                \/ PassNo(Strokes[j]) < PassNo(Strokes[j + 1])
                \/ /\ PassNo(Strokes[j]) = PassNo(Strokes[j + 1])
                   /\ Strokes[j].row <= Strokes[j + 1].row
          /\ Len(Marks) = Len(Strokes)
          /\ \A k \in 1..Len(Marks) : <<Marks[k].x, Marks[k].y>> = EndPoint(Strokes[k]))

\* a finished run with strokes on two scanlines of the horizontal pass,
\* followed by a stroke of the vertical pass
C5_Witness ==
    /\ pc = "done"
    /\ \E j \in 1..Len(Strokes) - 2 :
          /\ Strokes[j].axis = "x" /\ Strokes[j + 1].axis = "x"
          /\ Strokes[j].row < Strokes[j + 1].row
          /\ Strokes[j + 2].axis = "y"

\* generateVectors has returned from the horizontal pass
HorizontalDone == pc = "row" /\ axes = "x" /\ rowIndex = shape[1]

\* the geometry records of scanline r of the horizontal pass
RowStrokes(r) == SelectSeq(Strokes, LAMBDA s : s.axis = "x" /\ s.row = r)

\* the end points of a stroke, whatever its direction
Ends(s) == {s.p1, s.p2}

\* C6 as stated: on the 4x2 grid with rows [0,0,255,255] and [255,255,0,0] the
\* horizontal pass emits exactly one run for each of the two rows, on the
\* pixels of value 0 of that row, and row 0 is drawn forward.
C6_OneRunPerRow ==
    (image = ScenarioGrid /\ HorizontalDone) =>
        /\ Len(RowStrokes(0)) = 1 /\ Ends(RowStrokes(0)[1]) = {0, 2}
        /\ RowStrokes(0)[1].p1 < RowStrokes(0)[1].p2
        /\ Len(RowStrokes(1)) = 1 /\ Ends(RowStrokes(1)[1]) = {2, 4}

\* C6 amended: on that grid the horizontal pass emits exactly one run, for
\* row 0, on the pixels of value 0 of that row (from 0 to 2) and drawn forward;
\* row 1, whose index is odd, gets no run.
C6_OnlyRowZero ==
    (image = ScenarioGrid /\ HorizontalDone) =>
        /\ Strokes = <<[op |-> "line", axis |-> "x", p1 |-> 0, p2 |-> 2,
                        row |-> 0, val |-> 0]>>
        /\ Len(calls) = 1 /\ ~calls[1].invert
        /\ Len(RowStrokes(1)) = 0

\* the horizontal pass over the scenario grid has returned
C6_Witness == image = ScenarioGrid /\ HorizontalDone /\ Len(Strokes) = 1

\* every pixel of the array has the lightest level
AllWhite == \A r \in 1..shape[1] : \A j \in 1..shape[2] : image[r][j] = White

\* the G-code main writes before the passes
Prologue == <<[op |-> "HEADER", f |-> FEED_SPEED]>>
            \o (IF S_OR_F = 1 THEN <<[op |-> "S", s |-> POWER_MAX]>> ELSE <<>>)

\* C7: for an all-white grid no geometry record, no Travel and no Mark is
\* ever written, the cursor stays at its initial value, and the finished
\* G-code file is the prologue followed by the epilogue.
C7_AllWhiteEmitsNothing ==
    AllWhite =>
        /\ Strokes = <<>>
        /\ Motion = <<>>
        /\ calls = <<>>
        /\ <<last_a, last_b, last_c, last_d>> = <<0, 0, 0, 0>>
        /\ pc = "done" => gcodeFile = Prologue \o <<[op |-> "FOOTER"]>>

\* both passes have run over an all-white grid of at least 2 x 2 pixels
C7_Witness == AllWhite /\ pc = "done" /\ width >= 2 /\ height >= 2

\* the two predicates have been called on (fval, fidx)
NeedLineCalled == fres # <<>> /\ fres.fn = "needLine"

\* C8 as stated: for each of the six levels and every scanline index,
\* needLineY is false whenever needLineX is true.
C8_Complementary ==
    (NeedLineCalled /\ fval \in Levels) => (fres.x => ~fres.y)

\* C8 amended: for each of the six levels and every scanline index, needLineY
\* is false whenever needLineX is true, except for level 50 on the lines with
\* index % 4 = 0 and level 158 on the lines with index % 8 = 0, where both
\* predicates are true.
C8_ComplementaryButCrossHatch ==
    (NeedLineCalled /\ fval \in Levels) =>
        ((fres.x /\ fres.y) <=> \/ fval = 50 /\ fidx % 4 = 0
                                \/ fval = 158 /\ fidx % 8 = 0)

\* level 100 on a line of period 4: drawn horizontally, suppressed vertically
C8_Witness ==
    NeedLineCalled /\ fval = 100 /\ fidx % 4 = 0 /\ fidx > 0 /\ fres.x /\ ~fres.y

\* every period (2, 4, 8) that divides i divides j
Deeper(i, j) == \A p \in {2, 4, 8} : i % p = 0 => j % p = 0

\* C9: needLineX draws the darkest level on every even line and nothing on an
\* odd line; a value drawn on a line is drawn there with every darker value,
\* and is drawn on every line of the same or a deeper periodicity.
C9_NestedX ==
    NeedLineCalled =>
        /\ (fval <= 0 /\ fidx % 2 = 0) => fres.x
        /\ fidx % 2 = 1 => ~fres.x
        /\ fres.x => \A v \in 0..fval : needLineX(v, fidx)
        /\ fres.x => \A j \in 0..MaxLine : Deeper(fidx, j) => needLineX(fval, j)

\* the lightest drawn level on a line of period 8
C9_Witness == NeedLineCalled /\ fval = 212 /\ fidx = 8 /\ fres.x

\* svgPrint's arithmetic has been applied to fval
QuantizeCalled == fres # <<>> /\ fres.fn = "quantize"

\* C10 as stated: the bucket index of a shade value in 0..255 is
\* floor(6 * value / 256) and lies in 0..5; the darkness written is in 0..255.
C10_SixBuckets ==
    QuantizeCalled =>
        /\ fres.bucket = (6 * fval) \div 256
        /\ fres.bucket \in 0..5
        /\ fres.q \in 0..255

\* C10 amended: the bucket index of a shade value in 0..255 is
\* floor(value / 42), 42 being floor(256 / 6); it lies in 0..6 (seven buckets;
\* in 0..5 for the drawn levels, which are at most 212); the darkness written
\* is 42 times the bucket index, a value in 0..252.
C10_BucketsOfWidth42 ==
    QuantizeCalled =>
        /\ fres.bucket = fval \div 42
        /\ fres.bucket \in 0..6
        /\ fval <= 212 => fres.bucket \in 0..5
        /\ fres.q = 42 * fres.bucket
        /\ fres.q \in 0..252

\* the lightest value falls in the seventh bucket
C10_Witness == QuantizeCalled /\ fval = 255 /\ fres.bucket = 6 /\ fres.q = 252

\* C11: the quantization of svgPrint, applied to a value it has already
\* quantized, returns that value again, and the quantized value lies in the
\* bucket of the value it comes from, for every value in 0..255.
C11_QuantizeIdempotent ==
    QuantizeCalled =>
        /\ fres.qq = fres.q
        /\ fres.q \div 42 = fval \div 42

\* level 212 is quantized to 210, and 210 to itself
C11_Witness == QuantizeCalled /\ fval = 212 /\ fres.q = 210 /\ fres.qq = 210

\* the array has no pixel
EmptyArray == width = 0 \/ height = 0

\* C12: on an array with no scanline or with scanlines of no sample the
\* passes write no geometry and no motion record, leave the inversion flag
\* and the cursor as they were, and raise no error.
C12_EmptyShortCircuits ==
    EmptyArray =>
        /\ pc # "error"
        /\ Strokes = <<>>
        /\ Motion = <<>>
        /\ ~invert
        /\ <<last_a, last_b, last_c, last_d>> = <<0, 0, 0, 0>>

\* C13: every call svgPrint(start, stop, ...) made by generateVectors has
\* stop > start: no run handed to the Stroke Emitter has length zero.
C13_NoEmptyRun ==
    \A k \in 1..Len(calls) : calls[k].stop > calls[k].start

\* all samples of the non-empty scanline r have the same shade
Homogeneous(r) == Len(r) >= 1 /\ \A k \in 1..Len(r) : r[k] = r[1]

\* the number of <line> elements of file f on scanline i of pass ax
LineCount(f, ax, i) ==
    Cardinality({k \in 1..Len(f) : f[k].op = "line" /\ f[k].axis = ax /\ f[k].row = i})

\* C14: on a non-empty scanline of one shade the draw predicate of the pass
\* is tested exactly once, on that shade and the scanline index; if it is true
\* exactly one run is emitted for the line and the inversion flag toggles,
\* otherwise nothing is emitted.
C14_OneShadeLine ==
    [][(EndsLine /\ Homogeneous(row)) =>
          /\ Len(evals') = 1
          /\ evals'[1].val = row[1]
          /\ IF \/ axes = "x" /\ needLineX(row[1], rowIndex)
                \/ axes = "y" /\ needLineY(row[1], rowIndex)
             THEN /\ evals'[1].drawn
                  /\ LineCount(svgFile', axes, rowIndex) = 1
                  /\ Len(Strokes') = Len(Strokes) + 1
                  /\ Len(Marks') = Len(Marks) + 1
                  /\ invert' = ~invert
             ELSE /\ ~evals'[1].drawn
                  /\ LineCount(svgFile', axes, rowIndex) = 0
                  /\ svgFile' = svgFile
                  /\ gcodeFile' = gcodeFile]_vars

\* a drawn one-shade scanline of three samples in the vertical pass, after
\* which the flag is set
C14_Witness ==
    /\ LineDone /\ axes = "y"
    /\ Homogeneous(row) /\ Len(row) = 3
    /\ Len(evals) = 1 /\ evals[1].drawn
    /\ LineCount(svgFile, "y", rowIndex - 1) = 1
    /\ invert

\* the step by which main goes from the horizontal to the vertical pass
ChangesPass == axes = "x" /\ axes' = "y"

\* C15: the inversion flag is false while the first scanline of the
\* horizontal pass is processed and false again while the first scanline of
\* the vertical pass is processed, whatever its value at the end of the
\* horizontal pass; the cursor is carried unchanged from one pass to the other.
C15_FlagPerPass ==
    /\ [][ChangesPass => /\ ~invert'
                         /\ <<last_a, last_b, last_c, last_d>>' =
                                <<last_a, last_b, last_c, last_d>>]_vars
    /\ []((rowIndex = 0 /\ pc \in {"row", "pixel"}) => ~invert)

\* the first scanline of the vertical pass is being processed; the last
\* stroke of the horizontal pass was drawn forward, so that pass ended with
\* the flag set, and it left the cursor away from the origin
C15_Witness ==
    /\ axes = "y" /\ rowIndex = 0 /\ pc = "pixel" /\ ~invert
    /\ Len(calls) >= 1
    /\ calls[Len(calls)].axis = "x" /\ ~calls[Len(calls)].invert
    /\ last_c > 0 /\ last_d > 0

\* scanline r of pass ax in the grid as main received it, not reversed
OrigLine(ax, r) ==
    IF ax = axes THEN image[r + 1]
    ELSE [j \in 1..shape[1] |-> image[j][r + 1]]

\* the length of the scanlines of pass ax
LineLength(ax) == IF ax = "x" THEN width ELSE height

Min2(m, n) == IF m <= n THEN m ELSE n

Max2(m, n) == IF m <= n THEN n ELSE m

\* C16: a run [start, stop) found on an inverted scanline of length L is
\* emitted with the end points (L - start, L - stop), a run found on a
\* scanline that is not inverted with (start, stop); every pixel of the
\* original scanline between the two emitted end points has the shade of
\* the stroke.
C16_MirroredRunCoversItsShade ==
    \A k \in 1..Len(calls) :
        LET c == calls[k]
            s == Strokes[k]
            L == LineLength(c.axis)
        IN  /\ s.axis = c.axis /\ s.row = c.rowNum
            /\ s.p1 = (IF c.invert THEN L - c.start ELSE c.start)
            /\ s.p2 = (IF c.invert THEN L - c.stop ELSE c.stop)
            /\ \A p \in Min2(s.p1, s.p2)..(Max2(s.p1, s.p2) - 1) :
                  /\ OrigLine(c.axis, c.rowNum)[p + 1] = c.val
                  /\ Quantize(OrigLine(c.axis, c.rowNum)[p + 1]) = s.val

\* a finished run with a stroke of two pixels or more found on an inverted
\* scanline, away from the start of the reversed line
C16_Witness ==
    /\ pc = "done"
    /\ \E k \in 1..Len(calls) :
          /\ calls[k].invert /\ calls[k].start > 0
          /\ calls[k].stop >= calls[k].start + 2
          /\ Strokes[k].p1 > Strokes[k].p2

\* the seven power levels POWER_MIN + k * POWER_STEP, in thousandths
PowerLevels == {POWER_MIN * 1000 + (k * (POWER_MAX - POWER_MIN) * 1000) \div 6 : k \in 0..6}

\* the seven feed speeds FEED_SPEED + k * SPEED_STEP, as %d prints them
SpeedLevels == {FEED_SPEED + (k * (FEED_SPEED_MAX - FEED_SPEED)) \div 6 : k \in 0..6}

\* C17: the modulation value of every Mark is one of seven linearly spaced
\* levels; in power mode a darker run never gets less power than a lighter one
\* and the darkest level gets POWER_MAX; in speed mode a darker run never gets
\* a higher feed speed than a lighter one and the darkest level gets
\* FEED_SPEED; this holds of the Marks written and of the six shade levels;
\* the mode never changes during a run.
C17_ModulationLevels ==
    /\ [][S_OR_F' = S_OR_F]_vars
    /\ [](/\ Len(Marks) = Len(calls)
          /\ \A k \in 1..Len(Marks) :
                /\ Marks[k].s \in (IF S_OR_F = 1 THEN SpeedLevels ELSE PowerLevels)
                /\ calls[k].val = 0 =>
                      Marks[k].s = (IF S_OR_F = 1 THEN FEED_SPEED ELSE POWER_MAX * 1000)
                /\ \A j \in 1..Len(Marks) :
                      calls[j].val <= calls[k].val =>
                          IF S_OR_F = 1 THEN Marks[j].s <= Marks[k].s
                          ELSE Marks[j].s >= Marks[k].s
          /\ \A u \in Levels :
                /\ Sval(0, Quantize(u)) \in PowerLevels
                /\ Sval(1, Quantize(u)) \in SpeedLevels
                /\ \A v \in Levels :
                      u <= v => /\ Sval(0, Quantize(u)) >= Sval(0, Quantize(v))
                                /\ Sval(1, Quantize(u)) <= Sval(1, Quantize(v))
          /\ Sval(0, Quantize(0)) = POWER_MAX * 1000
          /\ Sval(1, Quantize(0)) = FEED_SPEED)

\* a finished run in power mode with a Mark of the darkest level at full
\* power and a Mark of level 50 one step below
C17_Witness ==
    /\ pc = "done" /\ S_OR_F = 0
    /\ \E j, k \in 1..Len(Marks) :
          /\ calls[j].val = 0 /\ Marks[j].s = 15000
          /\ calls[k].val = 50 /\ Marks[k].s = 12500

\* the Travel and Mark instructions of a G-code file
MotionOf(f) == SelectSeq(f, LAMBDA r : r.op \in {"G0", "G1"})

\* a motion sequence without the modulation values of its Marks
Coordinates(m) == [k \in 1..Len(m) |-> [op |-> m[k].op, x |-> m[k].x, y |-> m[k].y]]

\* the program has run to its end in both modes on the same image
BothRunsDone == saved # <<>> /\ pc = "done"

\* C18: run on the same grid once in power mode and once in speed mode, the
\* program writes the same geometry stream and the same sequence of Travel
\* and Mark instructions with the same coordinates.
C18_ModeIndependent ==
    BothRunsDone =>
        /\ saved.mode # S_OR_F
        /\ svgFile = saved.svg
        /\ Coordinates(MotionOf(gcodeFile)) = Coordinates(MotionOf(saved.gcode))

\* both runs are done, with a Travel and two Marks at least, and the first
\* Mark carries another modulation value in the second run
C18_Witness ==
    /\ BothRunsDone
    /\ Len(Travels) >= 1 /\ Len(Marks) >= 2
    /\ Marks[1].s # SelectSeq(saved.gcode, LAMBDA r : r.op = "G1")[1].s

\* the physical start point of a geometry record
StartPoint(r) == IF r.axis = "x" THEN <<r.p1 * PIXEL_SIZE, r.row * PIXEL_SIZE>>
                 ELSE <<r.row * PIXEL_SIZE, r.p1 * PIXEL_SIZE>>

\* the number of Marks among the first i motion instructions
MarkNo(i) == Len(SelectSeq(SubSeq(Motion, 1, i), LAMBDA r : r.op = "G1"))

\* C19: when a Mark is written the device, which is at the target of the
\* previous Travel or Mark (at the origin if there is none), stands at the
\* physical start point of the run that the Mark burns.
C19_MarkStartsAtRunStart ==
    \A i \in 1..Len(Motion) :
        Motion[i].op = "G1" => PosBefore(i) = StartPoint(Strokes[MarkNo(i)])

\* the number of scanlines of pass ax
LineTotal(ax) == IF ax = "x" THEN height ELSE width

\* C20: both along-line end points of every geometry record lie in 0..L, L
\* being the scanline length of its pass, and its line coordinate in
\* 0..(number of scanlines - 1); the target of every Travel and Mark lies
\* between the origin and width x height pixels.
C20_StrokesInsideImage ==
    /\ \A k \in 1..Len(Strokes) :
          /\ Strokes[k].p1 \in 0..LineLength(Strokes[k].axis)
          /\ Strokes[k].p2 \in 0..LineLength(Strokes[k].axis)
          /\ Strokes[k].row \in 0..(LineTotal(Strokes[k].axis) - 1)
    /\ \A i \in 1..Len(Motion) :
          /\ Motion[i].x \in 0..(width * PIXEL_SIZE)
          /\ Motion[i].y \in 0..(height * PIXEL_SIZE)

\* a finished run with a stroke that starts at the far edge of a reversed
\* scanline and a stroke of the vertical pass
C20_Witness ==
    /\ pc = "done"
    /\ \E k \in 1..Len(calls) :
          /\ calls[k].invert /\ calls[k].start = 0
          /\ Strokes[k].p1 = LineLength(calls[k].axis)
    /\ \E k \in 1..Len(Strokes) : Strokes[k].axis = "y"

====
